---- MODULE Spec2Model ----
(***************************************************************************)
(* A model of whirlwind's ShardMap (src/src/shard_map.rs): a concurrent    *)
(* hash map made of independently locked shards and one atomic length      *)
(* counter.  Every async method is cut at its lock acquisition (the only   *)
(* await point) and at each table or counter access inside the critical    *)
(* section.  The shard lock (crate::shard::Shard) and the guard types      *)
(* (crate::mapref) are modelled from their documented contract.            *)
(***************************************************************************)
EXTENDS Integers, Sequences, FiniteSets, Bags, TLC

\* ------------------------------------------------------------- bounds
NumTasks == 2
NumKeys == 2
NumVals == 2
MaxShards == 2
MaxGuards == 1
MaxClears == 1
MaxShardsReq == 9
MaxCapReq == 9
MaxRouteShards == 16
MaxRouteKey == 40

\* usize is 64 bits wide: std::mem::size_of::<usize>() * 8
UsizeBits == 64
\* the clamp applied to the per-shard capacity: .min(4)
CapClamp == 4

Tasks == 1..NumTasks
Keys == 1..NumKeys
Values == 1..NumVals
\* Option::None, and false for contains_key; Some(v) is v itself, true is 1
None == 0

\* ------------------------------------------------------ pure functions
RECURSIVE BitLen(_)
\* number of significant bits of x (0 for x = 0)
BitLen(x) == IF x = 0 THEN 0 ELSE 1 + BitLen(x \div 2)

\* usize::leading_zeros
leading_zeros(x) == UsizeBits - BitLen(x)

RECURSIVE Pow2(_)
\* 1 << k
Pow2(k) == IF k = 0 THEN 1 ELSE 2 * Pow2(k - 1)

RECURSIVE BitAnd(_, _)
\* a & b
BitAnd(a, b) ==
    IF a = 0 \/ b = 0 THEN 0
    ELSE (a % 2) * (b % 2) + 2 * BitAnd(a \div 2, b \div 2)

\* usize::next_power_of_two: the smallest power of two >= x (1 for x = 0)
next_power_of_two(x) == IF x <= 1 THEN 1 ELSE Pow2(BitLen(x - 1))

\* a <= b ? a : b
Min(a, b) == IF a <= b THEN a ELSE b

\* self.inner.hasher.hash_one(key) for one fixed, deterministic hasher
\* (16-bit Fibonacci hashing); the hasher is a parameter of the map.
Hash(k) == (k * 40503) % 65536

\* ------------------------------------------------------------- state
VARIABLES
    status,    \* "new" before construction, then "live" or "panicked"
    args,      \* the constructor called and its arguments
    nshards,   \* inner.shards.len()
    capacity,  \* the capacity every shard was created with
    table,     \* table[i]: the bag of (key, value) pairs of shard i
    lock,      \* lock[i]: the shard's RwLock: [readers, writer]
    length,    \* inner.length
    pc,        \* pc[t]: where task t stands in its current call
    op,        \* op[t]: the current call of task t and its locals
    seen,      \* the last call the doc example's task completed, its result
    guards,    \* guards[t]: the MapRef / MapRefMut values task t retains
    clears,    \* number of clear() calls made so far
    script     \* the position of the doc example's task in its script

vars == <<status, args, nshards, capacity, table, lock, length, pc, op,
          guards, clears, script, seen>>

ctorVars == <<status, args, nshards, capacity>>
mapVars == <<table, lock, length>>
taskVars == <<pc, op, guards, clears>>

Shards == 0..(nshards - 1)

NoArgs == [ctor |-> "none", shards |-> 0, cap |-> 0]
NoOp == [name |-> "none", key |-> 0, val |-> 0, idx |-> 0, old |-> 0,
         solo |-> FALSE]
NoRet == [name |-> "none", key |-> 0, res |-> 0]
\* the task that runs the doc example
Driver == 1
NoScript == [step |-> 0, k |-> 0, v |-> 0]

\* a freshly built Inner with n shards: empty tables, free locks, length 0
FreshTable(n) == [i \in 0..(n - 1) |-> EmptyBag]
FreshLock(n) == [i \in 0..(n - 1) |-> [readers |-> 0, writer |-> FALSE]]

IdleTasks ==
    /\ pc = [t \in Tasks |-> "idle"]
    /\ op = [t \in Tasks |-> NoOp]
    /\ guards = [t \in Tasks |-> <<>>]
    /\ clears = 0

\* ------------------------------------------------------- constructors
\* Shard::new(): an empty table with no pre-allocated capacity
ShardNewCapacity == 0

\* with_shards_and_hasher(shards, hasher): the number of shards built
with_shards_and_hasher(shards) == next_power_of_two(shards)

\* with_shards_and_capacity_and_hasher: the division cap / shards panics
\* for shards = 0
CapacityPanics(shards, cap) == shards = 0

\* with_shards_and_capacity_and_hasher: the capacity of each shard
ShardCapacity(shards, cap) ==
    Min(next_power_of_two(cap \div shards + 1), CapClamp)

\* the state after ShardMap::with_shards(n) returned
Built(ctor, n, cap, count, percap) ==
    /\ status' = "live"
    /\ args' = [ctor |-> ctor, shards |-> n, cap |-> cap]
    /\ nshards' = count
    /\ capacity' = percap
    /\ table' = FreshTable(count)
    /\ lock' = FreshLock(count)
    /\ length' = 0

\* a panic while constructing: no map exists
Panicked(ctor, n, cap) ==
    /\ status' = "panicked"
    /\ args' = [ctor |-> ctor, shards |-> n, cap |-> cap]
    /\ UNCHANGED <<nshards, capacity, table, lock, length>>

\* ShardMap::with_shards(n) / with_shards_and_hasher(n, hasher)
WithShards(n) ==
    /\ status = "new"
    /\ Built("with_shards", n, 0, with_shards_and_hasher(n), ShardNewCapacity)
    /\ UNCHANGED <<taskVars, script, seen>>

\* ShardMap::with_shards_and_capacity(n, cap) /
\* with_shards_and_capacity_and_hasher(n, cap, hasher)
WithShardsAndCapacity(n, cap) ==
    /\ status = "new"
    /\ IF CapacityPanics(n, cap)
       THEN Panicked("with_shards_and_capacity", n, cap)
       ELSE Built("with_shards_and_capacity", n, cap,
                  next_power_of_two(n), ShardCapacity(n, cap))
    /\ UNCHANGED <<taskVars, script, seen>>

\* nothing is constructed yet
InitCtor ==
    /\ status = "new"
    /\ args = NoArgs
    /\ nshards = 0
    /\ capacity = 0
    /\ table = FreshTable(0)
    /\ lock = FreshLock(0)
    /\ length = 0
    /\ IdleTasks
    /\ script = NoScript
    /\ seen = NoRet

NextCtor ==
    \/ \E n \in 0..MaxShardsReq : WithShards(n)
    \/ \E n \in 0..MaxShardsReq, cap \in 0..MaxCapReq : WithShardsAndCapacity(n, cap)

\* the constructors alone, applied to every requested count and capacity
SpecCtor == InitCtor /\ [][NextCtor]_vars

\* ------------------------------------------------------------ shard
\* shard with a plausible bug: every key is routed to the first shard
shardFirst(key) == 0

\* shard with a plausible bug: the mask is one bit too wide
shardWideMask(key) ==
    LET hash == Hash(key)
        k == UsizeBits - leading_zeros(nshards)
    IN BitAnd(hash, Pow2(k) - 1)

\* ShardMap::shard: the index of the shard a key is routed to
shard(key) ==
    LET hash == Hash(key)
        k == (UsizeBits - 1) - leading_zeros(nshards)
    IN BitAnd(hash, Pow2(k) - 1)

\* the entries of shard i whose key equals k
KeyEntries(i, k) == {e \in BagToSet(table[i]) : e[1] = k}

\* HashTable::find(hash, |(k, _)| k == key) is Some
Found(i, k) == KeyEntries(i, k) # {}

\* the value HashTable::find yields for key k in shard i, or None
Lookup(i, k) ==
    IF Found(i, k) THEN (CHOOSE e \in KeyEntries(i, k) : TRUE)[2] ELSE None

\* TableInsert with a plausible bug: the pair goes to the next shard
TableInsertElsewhere(i, k, v) ==
    [table EXCEPT ![(i + 1) % nshards] = @ (+) SetToBag({<<k, v>>})]

\* the table of shard i with one (k, v) pair added / removed
TableInsert(i, k, v) == [table EXCEPT ![i] = @ (+) SetToBag({<<k, v>>})]
TableRemove(i, k, v) == [table EXCEPT ![i] = @ (-) SetToBag({<<k, v>>})]

\* AtomicUsize::fetch_add(1) / fetch_sub(1), wrapping; -1 stands for
\* usize::MAX, which is -1 modulo 2^64
fetch_add(x) == x + 1
fetch_sub(x) == x - 1

\* ShardMap::len and ShardMap::is_empty
len == length
is_empty == len = 0

\* ------------------------------------------------- the shard's RwLock
\* Shard::read().await completes only while no exclusive holder is active
CanRead(i) == ~lock[i].writer
\* Shard::write().await completes only while no holder at all is active
CanWrite(i) == ~lock[i].writer /\ lock[i].readers = 0

ReadLocked(i) == [lock EXCEPT ![i].readers = @ + 1]
ReadUnlocked(i) == [lock EXCEPT ![i].readers = @ - 1]
WriteLocked(i) == [lock EXCEPT ![i].writer = TRUE]
WriteUnlocked(i) == [lock EXCEPT ![i].writer = FALSE]

\* ------------------------------------------------------------- tasks
WaitPcs == {"ins_wait", "get_wait", "gm_wait", "ck_wait", "rm_wait", "clr_wait"}
ReadPcs == {"get_locked", "ck_locked"}
WritePcs == {"ins_locked", "ins_removed", "ins_count", "ins_exit", "gm_locked",
             "rm_locked", "rm_count", "rm_exit", "clr_locked"}

Call(name, k, v, i, solo) ==
    [name |-> name, key |-> k, val |-> v, idx |-> i, old |-> None, solo |-> solo]

\* task t starts a call: any clear() in flight no longer runs alone
Begin(t, new, c) ==
    /\ status = "live"
    /\ pc[t] = "idle"
    /\ pc' = [pc EXCEPT ![t] = new]
    /\ op' = [u \in Tasks |-> IF u = t THEN c ELSE [op[u] EXCEPT !.solo = FALSE]]
    /\ UNCHANGED <<ctorVars, mapVars, guards, seen>>

\* the doc example's task moves to the next step of its script
Advance(t) ==
    script' = IF script.step > 0 /\ t = Driver
              THEN [script EXCEPT !.step = @ + 1]
              ELSE script

\* task t returns from its call with result res; the doc example's task
\* keeps what it was returned
Return(t, res) ==
    /\ pc' = [pc EXCEPT ![t] = "idle"]
    /\ Advance(t)
    /\ seen' = IF script.step > 0 /\ t = Driver
               THEN [name |-> op[t].name, key |-> op[t].key, res |-> res]
               ELSE seen
    /\ op' = [op EXCEPT ![t] = NoOp]

\* task t moves on inside its call
Goto(t, new) ==
    /\ pc' = [pc EXCEPT ![t] = new]
    /\ UNCHANGED <<seen, script>>

Other == <<ctorVars, clears>>

\* ------------------------------------------------------------ insert
\* insert: let (shard, hash) = self.shard(&key)
InsertCall(t, k, v) ==
    /\ Begin(t, "ins_wait", Call("insert", k, v, shard(k), FALSE))
    /\ UNCHANGED <<clears, script>>

\* InsertLock with a plausible bug: insert takes the shared lock
InsertLockShared(t) ==
    /\ pc[t] = "ins_wait"
    /\ CanRead(op[t].idx)
    /\ lock' = ReadLocked(op[t].idx)
    /\ Goto(t, "ins_locked")
    /\ UNCHANGED <<Other, table, length, op, guards>>

\* insert: let mut writer = shard.write().await
InsertLock(t) ==
    /\ pc[t] = "ins_wait"
    /\ CanWrite(op[t].idx)
    /\ lock' = WriteLocked(op[t].idx)
    /\ Goto(t, "ins_locked")
    /\ UNCHANGED <<Other, table, length, op, guards>>

\* InsertEntry with a plausible bug: the entry is inserted without looking
\* for an equal key
InsertEntryAlwaysVacant(t) ==
    /\ pc[t] = "ins_locked"
    /\ table' = TableInsert(op[t].idx, op[t].key, op[t].val)
    /\ op' = op
    /\ Goto(t, "ins_count")
    /\ UNCHANGED <<Other, lock, length, guards>>

\* InsertEntry with a plausible bug: the write guard is dropped right after
\* the table mutation, before the counter is updated
InsertEntryUnlocksEarly(t) ==
    /\ pc[t] = "ins_locked"
    /\ LET i == op[t].idx
           k == op[t].key
       IN IF Found(i, k)
          THEN /\ table' = TableRemove(i, k, Lookup(i, k))
               /\ op' = [op EXCEPT ![t].old = Lookup(i, k)]
               /\ lock' = lock
               /\ Goto(t, "ins_removed")
          ELSE /\ table' = TableInsert(i, k, op[t].val)
               /\ op' = op
               /\ lock' = WriteUnlocked(i)
               /\ Goto(t, "ins_count")
    /\ UNCHANGED <<Other, length, guards>>

\* insert: writer.entry(..); Occupied: o.remove(); Vacant: v.insert(..)
InsertEntry(t) ==
    /\ pc[t] = "ins_locked"
    /\ LET i == op[t].idx
           k == op[t].key
       IN IF Found(i, k)
          THEN /\ table' = TableRemove(i, k, Lookup(i, k))
               /\ op' = [op EXCEPT ![t].old = Lookup(i, k)]
               /\ Goto(t, "ins_removed")
          ELSE /\ table' = TableInsert(i, k, op[t].val)
               /\ op' = op
               /\ Goto(t, "ins_count")
    /\ UNCHANGED <<Other, lock, length, guards>>

\* InsertReinsert with a plausible bug: a replaced key is counted again
InsertReinsertCounts(t) ==
    /\ pc[t] = "ins_removed"
    /\ table' = TableInsert(op[t].idx, op[t].key, op[t].val)
    /\ Goto(t, "ins_count")
    /\ UNCHANGED <<Other, lock, length, op, guards>>

\* insert, Occupied: vacant.insert((key, value)); Some(old.1)
InsertReinsert(t) ==
    /\ pc[t] = "ins_removed"
    /\ table' = TableInsert(op[t].idx, op[t].key, op[t].val)
    /\ Goto(t, "ins_exit")
    /\ UNCHANGED <<Other, lock, length, op, guards>>

\* insert, Vacant: self.inner.length.fetch_add(1, Relaxed); None
InsertCount(t) ==
    /\ pc[t] = "ins_count"
    /\ length' = fetch_add(length)
    /\ Goto(t, "ins_exit")
    /\ UNCHANGED <<Other, table, lock, op, guards>>

\* insert returns: writer is dropped
InsertReturn(t) ==
    /\ pc[t] = "ins_exit"
    /\ lock' = WriteUnlocked(op[t].idx)
    /\ Return(t, op[t].old)
    /\ UNCHANGED <<Other, table, length, guards>>

\* --------------------------------------------------------------- get
\* a retained MapRef ("r") or MapRefMut ("w") into shard i for key k
Guard(i, mode, k) == [idx |-> i, mode |-> mode, key |-> k]

\* get: let (shard, hash) = self.shard(key)
GetCall(t, k) ==
    /\ Len(guards[t]) < MaxGuards
    /\ Begin(t, "get_wait", Call("get", k, None, shard(k), FALSE))
    /\ UNCHANGED <<clears, script>>

\* get: let reader = shard.read().await
GetLock(t) ==
    /\ pc[t] = "get_wait"
    /\ CanRead(op[t].idx)
    /\ lock' = ReadLocked(op[t].idx)
    /\ Goto(t, "get_locked")
    /\ UNCHANGED <<Other, table, length, op, guards>>

\* GetFind with a plausible bug: the reader is leaked when the key is absent
GetFindLeaks(t) ==
    /\ pc[t] = "get_locked"
    /\ guards' = IF Found(op[t].idx, op[t].key)
                 THEN [guards EXCEPT ![t] = Append(@, Guard(op[t].idx, "r", op[t].key))]
                 ELSE guards
    /\ lock' = lock
    /\ Return(t, Lookup(op[t].idx, op[t].key))
    /\ UNCHANGED <<Other, table, length>>

\* get: reader.find(..).map(.. MapRef::new(reader, k, v)): the reader moves
\* into the MapRef when the key is found and is dropped otherwise
GetFind(t) ==
    /\ pc[t] = "get_locked"
    /\ LET i == op[t].idx
           k == op[t].key
       IN IF Found(i, k)
          THEN /\ guards' = [guards EXCEPT ![t] = Append(@, Guard(i, "r", k))]
               /\ lock' = lock
          ELSE /\ guards' = guards
               /\ lock' = ReadUnlocked(i)
    /\ Return(t, Lookup(op[t].idx, op[t].key))
    /\ UNCHANGED <<Other, table, length>>

\* ----------------------------------------------------------- get_mut
\* get_mut: let (shard, hash) = self.shard(key)
GetMutCall(t, k) ==
    /\ Len(guards[t]) < MaxGuards
    /\ Begin(t, "gm_wait", Call("get_mut", k, None, shard(k), FALSE))
    /\ UNCHANGED <<clears, script>>

\* get_mut: let mut writer = shard.write().await
GetMutLock(t) ==
    /\ pc[t] = "gm_wait"
    /\ CanWrite(op[t].idx)
    /\ lock' = WriteLocked(op[t].idx)
    /\ Goto(t, "gm_locked")
    /\ UNCHANGED <<Other, table, length, op, guards>>

\* get_mut: writer.find_mut(..).map(.. MapRefMut::new(writer, k, v))
GetMutFind(t) ==
    /\ pc[t] = "gm_locked"
    /\ LET i == op[t].idx
           k == op[t].key
       IN IF Found(i, k)
          THEN /\ guards' = [guards EXCEPT ![t] = Append(@, Guard(i, "w", k))]
               /\ lock' = lock
          ELSE /\ guards' = guards
               /\ lock' = WriteUnlocked(i)
    /\ Return(t, Lookup(op[t].idx, op[t].key))
    /\ UNCHANGED <<Other, table, length>>

\* ------------------------------------------------------ contains_key
\* contains_key: let (shard, hash) = self.shard(key)
ContainsCall(t, k) ==
    /\ Begin(t, "ck_wait", Call("contains_key", k, None, shard(k), FALSE))
    /\ UNCHANGED <<clears, script>>

\* ContainsLock with a plausible bug: the read does not wait for a writer
ContainsLockNoWait(t) ==
    /\ pc[t] = "ck_wait"
    /\ lock' = ReadLocked(op[t].idx)
    /\ Goto(t, "ck_locked")
    /\ UNCHANGED <<Other, table, length, op, guards>>

\* contains_key: let reader = shard.read().await
ContainsLock(t) ==
    /\ pc[t] = "ck_wait"
    /\ CanRead(op[t].idx)
    /\ lock' = ReadLocked(op[t].idx)
    /\ Goto(t, "ck_locked")
    /\ UNCHANGED <<Other, table, length, op, guards>>

\* contains_key: reader.find(..).is_some(); reader is dropped
ContainsFind(t) ==
    /\ pc[t] = "ck_locked"
    /\ lock' = ReadUnlocked(op[t].idx)
    /\ Return(t, IF Found(op[t].idx, op[t].key) THEN 1 ELSE 0)
    /\ UNCHANGED <<Other, table, length, guards>>

\* ------------------------------------------------------------ remove
\* remove: let (shard, hash) = self.shard(key)
RemoveCall(t, k) ==
    /\ Begin(t, "rm_wait", Call("remove", k, None, shard(k), FALSE))
    /\ UNCHANGED <<clears, script>>

\* RemoveLock with a plausible bug: remove takes the shared lock
RemoveLockShared(t) ==
    /\ pc[t] = "rm_wait"
    /\ CanRead(op[t].idx)
    /\ lock' = ReadLocked(op[t].idx)
    /\ Goto(t, "rm_locked")
    /\ UNCHANGED <<Other, table, length, op, guards>>

\* remove: shard.write().await
RemoveLock(t) ==
    /\ pc[t] = "rm_wait"
    /\ CanWrite(op[t].idx)
    /\ lock' = WriteLocked(op[t].idx)
    /\ Goto(t, "rm_locked")
    /\ UNCHANGED <<Other, table, length, op, guards>>

\* RemoveFind with a plausible bug: the counter is decremented even when no
\* entry was found
RemoveFindCountsMissing(t) ==
    /\ pc[t] = "rm_locked"
    /\ LET i == op[t].idx
           k == op[t].key
       IN /\ table' = IF Found(i, k) THEN TableRemove(i, k, Lookup(i, k)) ELSE table
          /\ op' = [op EXCEPT ![t].old = Lookup(i, k)]
          /\ lock' = lock
          /\ Goto(t, "rm_count")
    /\ UNCHANGED <<Other, length, guards>>

\* RemoveFind with a plausible bug: the entry found is read, not removed
RemoveFindKeeps(t) ==
    /\ pc[t] = "rm_locked"
    /\ LET i == op[t].idx
           k == op[t].key
       IN IF Found(i, k)
          THEN /\ op' = [op EXCEPT ![t].old = Lookup(i, k)]
               /\ lock' = lock
               /\ Goto(t, "rm_count")
          ELSE /\ lock' = WriteUnlocked(i)
               /\ Return(t, None)
    /\ UNCHANGED <<Other, table, length, guards>>

\* remove: find_entry(..): Ok(v) => v.remove(); Err(_) => None, and the
\* write guard is dropped at the end of the match
RemoveFind(t) ==
    /\ pc[t] = "rm_locked"
    /\ LET i == op[t].idx
           k == op[t].key
       IN IF Found(i, k)
          THEN /\ table' = TableRemove(i, k, Lookup(i, k))
               /\ op' = [op EXCEPT ![t].old = Lookup(i, k)]
               /\ lock' = lock
               /\ Goto(t, "rm_count")
          ELSE /\ table' = table
               /\ lock' = WriteUnlocked(i)
               /\ Return(t, None)
    /\ UNCHANGED <<Other, length, guards>>

\* remove, Ok: self.inner.length.fetch_sub(1, Relaxed)
RemoveCount(t) ==
    /\ pc[t] = "rm_count"
    /\ length' = fetch_sub(length)
    /\ Goto(t, "rm_exit")
    /\ UNCHANGED <<Other, table, lock, op, guards>>

\* remove, Ok: Some(v); the write guard is dropped at the end of the match
RemoveReturn(t) ==
    /\ pc[t] = "rm_exit"
    /\ lock' = WriteUnlocked(op[t].idx)
    /\ Return(t, op[t].old)
    /\ UNCHANGED <<Other, table, length, guards>>

\* ------------------------------------------------------------- clear
\* clear: for shard in self.inner.iter(), from the first shard
ClearCall(t) ==
    /\ clears < MaxClears
    /\ clears' = clears + 1
    /\ Begin(t, "clr_wait",
             Call("clear", None, None, 0, \A u \in Tasks \ {t} : pc[u] = "idle"))
    /\ UNCHANGED script

\* ClearLock with a plausible bug: clear takes the exclusive lock of every
\* shard before it clears the first one
ClearLockAllAtOnce(t) ==
    /\ pc[t] = "clr_wait"
    /\ \A i \in Shards : CanWrite(i)
    /\ lock' = [i \in Shards |-> [lock[i] EXCEPT !.writer = TRUE]]
    /\ Goto(t, "clr_locked")
    /\ UNCHANGED <<Other, table, length, op, guards>>

\* clear: shard.write().await
ClearLock(t) ==
    /\ pc[t] = "clr_wait"
    /\ CanWrite(op[t].idx)
    /\ lock' = WriteLocked(op[t].idx)
    /\ Goto(t, "clr_locked")
    /\ UNCHANGED <<Other, table, length, op, guards>>

\* ClearShard with a plausible bug: the write guards are kept until the
\* loop ends
ClearShardKeepsLock(t) ==
    /\ pc[t] = "clr_locked"
    /\ table' = [table EXCEPT ![op[t].idx] = EmptyBag]
    /\ IF op[t].idx + 1 < nshards
       THEN /\ lock' = lock
            /\ op' = [op EXCEPT ![t].idx = @ + 1]
            /\ Goto(t, "clr_wait")
       ELSE /\ lock' = [i \in Shards |-> [lock[i] EXCEPT !.writer = FALSE]]
            /\ Return(t, None)
    /\ UNCHANGED <<Other, length, guards>>

\* ClearShard with a plausible bug: only the first shard's table is cleared
ClearShardFirstOnly(t) ==
    /\ pc[t] = "clr_locked"
    /\ table' = IF op[t].idx = 0 THEN [table EXCEPT ![0] = EmptyBag] ELSE table
    /\ lock' = WriteUnlocked(op[t].idx)
    /\ IF op[t].idx + 1 < nshards
       THEN /\ op' = [op EXCEPT ![t].idx = @ + 1]
            /\ Goto(t, "clr_wait")
       ELSE Return(t, None)
    /\ UNCHANGED <<Other, length, guards>>

\* ClearShard with a plausible bug: after the last shard the counter is
\* stored as 0
ClearShardResetsLength(t) ==
    /\ pc[t] = "clr_locked"
    /\ table' = [table EXCEPT ![op[t].idx] = EmptyBag]
    /\ lock' = WriteUnlocked(op[t].idx)
    /\ IF op[t].idx + 1 < nshards
       THEN /\ op' = [op EXCEPT ![t].idx = @ + 1]
            /\ length' = length
            /\ Goto(t, "clr_wait")
       ELSE /\ length' = 0
            /\ Return(t, None)
    /\ UNCHANGED <<Other, guards>>

\* clear: .clear(); the write guard is dropped at the end of the statement
\* and the loop moves to the next shard or ends
ClearShard(t) ==
    /\ pc[t] = "clr_locked"
    /\ table' = [table EXCEPT ![op[t].idx] = EmptyBag]
    /\ lock' = WriteUnlocked(op[t].idx)
    /\ IF op[t].idx + 1 < nshards
       THEN /\ op' = [op EXCEPT ![t].idx = @ + 1]
            /\ Goto(t, "clr_wait")
       ELSE Return(t, None)
    /\ UNCHANGED <<Other, length, guards>>

\* ------------------------------------------------------------ guards
\* s without its i-th element
Without(s, i) == [j \in 1..(Len(s) - 1) |-> IF j < i THEN s[j] ELSE s[j + 1]]

\* task t drops a MapRef or MapRefMut it retains: the shard lock is released
DropGuard(t, i) ==
    /\ pc[t] = "idle"
    /\ i \in 1..Len(guards[t])
    /\ lock' = IF guards[t][i].mode = "r" THEN ReadUnlocked(guards[t][i].idx)
               ELSE WriteUnlocked(guards[t][i].idx)
    /\ guards' = [guards EXCEPT ![t] = Without(@, i)]
    /\ Advance(t)
    /\ UNCHANGED <<Other, table, length, pc, op, seen>>

\* task t writes v through a MapRefMut it retains (value_mut)
GuardSet(t, i, v) ==
    /\ pc[t] = "idle"
    /\ i \in 1..Len(guards[t])
    /\ guards[t][i].mode = "w"
    /\ LET g == guards[t][i]
       IN /\ Lookup(g.idx, g.key) # v
          /\ table' = [table EXCEPT ![g.idx] =
                         (@ (-) SetToBag({<<g.key, Lookup(g.idx, g.key)>>}))
                            (+) SetToBag({<<g.key, v>>})]
    /\ UNCHANGED <<Other, lock, length, pc, op, guards, seen, script>>

\* the future of task t is dropped while it waits for a shard lock
Cancel(t) ==
    /\ pc[t] \in WaitPcs
    /\ pc' = [pc EXCEPT ![t] = "idle"]
    /\ op' = [op EXCEPT ![t] = NoOp]
    /\ UNCHANGED <<Other, mapVars, guards, seen, script>>

\* ------------------------------------------------------ specification
\* a map built by ShardMap::with_shards(n), shared by idle tasks
Init ==
    /\ \E n \in 1..MaxShards :
          /\ status = "live"
          /\ args = [ctor |-> "with_shards", shards |-> n, cap |-> 0]
          /\ nshards = with_shards_and_hasher(n)
          /\ capacity = ShardNewCapacity
          /\ table = FreshTable(with_shards_and_hasher(n))
          /\ lock = FreshLock(with_shards_and_hasher(n))
    /\ length = 0
    /\ IdleTasks
    /\ script = NoScript
    /\ seen = NoRet

\* the steps inside a call to insert, get, get_mut, contains_key or remove
KeySteps(t) ==
    \/ InsertLock(t) \/ InsertEntry(t) \/ InsertReinsert(t) \/ InsertCount(t)
    \/ InsertReturn(t)
    \/ GetLock(t) \/ GetFind(t)
    \/ GetMutLock(t) \/ GetMutFind(t)
    \/ ContainsLock(t) \/ ContainsFind(t)
    \/ RemoveLock(t) \/ RemoveFind(t) \/ RemoveCount(t) \/ RemoveReturn(t)

\* the steps inside a call to clear
ClearSteps(t) == ClearLock(t) \/ ClearShard(t)

\* the calls of a task that works on the keys ks
KeyCalls(t, ks) ==
    \/ \E k \in ks, v \in Values : InsertCall(t, k, v)
    \/ \E k \in ks : GetCall(t, k)
    \/ \E k \in ks : GetMutCall(t, k)
    \/ \E k \in ks : ContainsCall(t, k)
    \/ \E k \in ks : RemoveCall(t, k)
    \/ \E i \in 1..MaxGuards : DropGuard(t, i)
    \/ \E i \in 1..MaxGuards, v \in Values : GuardSet(t, i, v)

Next ==
    \/ \E t \in Tasks : KeyCalls(t, Keys)
    \/ \E t \in Tasks : ClearCall(t)
    \/ \E t \in Tasks : KeySteps(t)
    \/ \E t \in Tasks : ClearSteps(t)
    \/ \E t \in Tasks : Cancel(t)

\* any number of tasks calling any operation on one shared map
Spec == Init /\ [][Next]_vars

\* ---------------------------------------------------- the doc example
\* The script of the doc example's task, on its key k and value v:
\*   1 insert(k, any value)   (skipped when the script starts at 2)
\*   2 insert(k, v)   3 get(k)   4 contains_key(k)   5 drop the MapRef
\*   6 remove(k)      7 get(k)   8 contains_key(k)   9 done
\* script.step is the step to run next; it advances when a call returns.
RtStep ==
    \/ /\ script.step = 1
       /\ \E v \in Values : InsertCall(Driver, script.k, v)
    \/ /\ script.step = 2
       /\ InsertCall(Driver, script.k, script.v)
    \/ /\ script.step \in {3, 7}
       /\ GetCall(Driver, script.k)
    \/ /\ script.step \in {4, 8}
       /\ ContainsCall(Driver, script.k)
    \/ /\ script.step = 5
       /\ DropGuard(Driver, 1)
    \/ /\ script.step = 6
       /\ RemoveCall(Driver, script.k)

\* a map built by ShardMap::with_shards(n); the doc example's task is about
\* to run its script on key k and value v
InitRT ==
    /\ \E n \in 1..MaxShards :
          /\ status = "live"
          /\ args = [ctor |-> "with_shards", shards |-> n, cap |-> 0]
          /\ nshards = with_shards_and_hasher(n)
          /\ capacity = ShardNewCapacity
          /\ table = FreshTable(with_shards_and_hasher(n))
          /\ lock = FreshLock(with_shards_and_hasher(n))
    /\ length = 0
    /\ IdleTasks
    /\ script \in [step : {1, 2}, k : Keys, v : Values]
    /\ seen = NoRet

NextRT ==
    \/ RtStep
    \/ \E t \in Tasks \ {Driver} : KeyCalls(t, Keys \ {script.k})
    \/ \E t \in Tasks : KeySteps(t)
    \/ \E t \in Tasks \ {Driver} : Cancel(t)

\* the doc example's task runs its script on its key while the other tasks
\* work on the other keys
SpecRT == InitRT /\ [][NextRT]_vars

\* ------------------------------------------------- who holds a lock
\* task t retains a guard of the given mode on shard i
Retains(t, i, mode) ==
    \E j \in 1..Len(guards[t]) : guards[t][j].idx = i /\ guards[t][j].mode = mode

\* the MapRef ("r") or MapRefMut ("w") values alive on shard i
GuardsOn(i, mode) ==
    {g \in Tasks \X (1..MaxGuards) :
        /\ g[2] <= Len(guards[g[1]])
        /\ guards[g[1]][g[2]].idx = i
        /\ guards[g[1]][g[2]].mode = mode}

\* the calls that stand between their read / write acquisition and release
ReadSections(i) == {t \in Tasks : pc[t] \in ReadPcs /\ op[t].idx = i}
WriteSections(i) == {t \in Tasks : pc[t] \in WritePcs /\ op[t].idx = i}

SharedHolders(i) == Cardinality(ReadSections(i)) + Cardinality(GuardsOn(i, "r"))
ExclusiveHolders(i) == Cardinality(WriteSections(i)) + Cardinality(GuardsOn(i, "w"))

\* no call is in flight and no guard is retained
Quiescent ==
    /\ status = "live"
    /\ \A t \in Tasks : pc[t] = "idle" /\ guards[t] = <<>>

\* the keys that have an entry in some shard
LiveKeys == {k \in Keys : \E i \in Shards : Found(i, k)}

\* ------------------------------------------------------------ claims
\* C1: at quiescence (no call in flight, no guard retained) len() equals
\* the number of distinct keys that have an entry in the map.
LenAtQuiescence == Quiescent => len = Cardinality(LiveKeys)

\* C2: when a clear() that ran with no other call in flight returns, and
\* leaves the map quiescent, len() is 0 and is_empty() is true.
ClearLeavesLenZero ==
    [][\A t \in Tasks :
          (pc[t] = "clr_locked" /\ pc'[t] = "idle" /\ op[t].solo /\ Quiescent')
             => (len' = 0 /\ is_empty')]_vars

\* the number of entries, over all shards, whose key is k
EntriesOf(k) ==
    Cardinality({x \in Shards \X (Keys \X Values) :
                    x[2][1] = k /\ x[2] \in BagToSet(table[x[1]])})

\* every entry of the map is stored once, and no key has two entries
AtMostOneEntry ==
    /\ \A i \in Shards : \A e \in BagToSet(table[i]) : CopiesIn(e, table[i]) = 1
    /\ \A k \in Keys : EntriesOf(k) <= 1

\* what the steps of an insert(k, v) of task t do: the entry step takes the
\* previous value of k (None when k is absent) as the result to return; the
\* next step adds 1 to the counter exactly when k was absent; at the return
\* k has the one value v, and the return itself changes neither the table
\* nor the counter.
InsertContract ==
    \A t \in Tasks :
       LET i == op[t].idx
           k == op[t].key
       IN /\ (pc[t] = "ins_locked" /\ pc'[t] # "ins_locked")
                => /\ op'[t].old = Lookup(i, k)
                   /\ pc'[t] = IF Found(i, k) THEN "ins_removed" ELSE "ins_count"
                   /\ length' = length
          /\ (pc[t] \in {"ins_removed", "ins_count"} /\ pc'[t] # pc[t])
                => /\ pc'[t] = "ins_exit"
                   /\ op'[t].old = op[t].old
                   /\ length' = IF op[t].old = None THEN length + 1 ELSE length
          /\ (pc[t] = "ins_exit" /\ pc'[t] # "ins_exit")
                => /\ Lookup(i, k) = op[t].val
                   /\ EntriesOf(k) = 1
                   /\ table' = table
                   /\ length' = length

\* C3: the map holds at most one entry per key; insert on a present key
\* returns its previous value, makes v its value and leaves len() as it is;
\* insert on an absent key returns None and adds exactly 1 to len().
InsertUnique == [](AtMostOneEntry) /\ [][InsertContract]_vars

\* an insert that replaced a different value is about to return it
InsertReplaced ==
    \E t \in Tasks :
       /\ pc[t] = "ins_exit"
       /\ op[t].old # None
       /\ op[t].old # op[t].val
       /\ Lookup(op[t].idx, op[t].key) = op[t].val

\* what the doc example's task was returned by the call it made last
Saw(name, res) == seen = [name |-> name, key |-> script.k, res |-> res]

\* C4: with no other call on k, insert(k, v) then get(k) yields a guard on
\* the value v and contains_key(k) is true; remove(k) then returns Some(v);
\* after that get(k) returns None and contains_key(k) is false.
RoundTrip ==
    pc[Driver] = "idle" =>
       /\ script.step = 4 =>
             /\ Saw("get", script.v)
             /\ guards[Driver] = <<Guard(shard(script.k), "r", script.k)>>
             /\ Lookup(shard(script.k), script.k) = script.v
       /\ script.step = 5 => Saw("contains_key", 1)
       /\ script.step = 7 => Saw("remove", script.v)
       /\ script.step = 8 => Saw("get", None) /\ guards[Driver] = <<>>
       /\ script.step = 9 => Saw("contains_key", 0)

\* the script ran to its end while another task has an entry in the map
RoundTripDone ==
    /\ script.step = 9
    /\ Saw("contains_key", 0)
    /\ LiveKeys # {}

\* C5: each shard has no holder, shared holders only, or one exclusive
\* holder; get and contains_key read a table only under its shared lock;
\* insert, get_mut, remove and clear touch it only under its exclusive lock.
LockDiscipline ==
    \A i \in Shards :
       /\ ~(lock[i].writer /\ lock[i].readers > 0)
       /\ ExclusiveHolders(i) <= 1
       /\ ExclusiveHolders(i) = 1 => SharedHolders(i) = 0
       /\ ReadSections(i) # {} => lock[i].readers >= 1 /\ ~lock[i].writer
       /\ WriteSections(i) # {} => lock[i].writer /\ lock[i].readers = 0

\* two shared holders of one shard at once, one of them inside get
TwoReaders ==
    \E i \in Shards :
       /\ lock[i].readers = 2
       /\ SharedHolders(i) = 2
       /\ ReadSections(i) # {}

\* task t reads shard i: it is inside get or contains_key, or retains a MapRef
Reading(t, i) == t \in ReadSections(i) \/ Retains(t, i, "r")

\* C6: a get or contains_key concurrent with a write on its shard sees the
\* table as it was before the write or as it is after it: while it reads,
\* no writer is inside its critical section, and no read reports a key
\* absent while an insert is replacing its entry.
ReadAtomicity ==
    /\ [](\A i \in Shards : \A t \in Tasks :
             Reading(t, i) => WriteSections(i) = {})
    /\ [][\A t \in Tasks :
             (pc[t] \in ReadPcs /\ pc'[t] = "idle" /\ ~Found(op[t].idx, op[t].key))
                => ~\E u \in Tasks :
                       pc[u] = "ins_removed" /\ op[u].key = op[t].key]_vars

\* a get or contains_key of k waits while an insert has removed the entry
\* of k and not yet inserted the new one
ReadDuringReplace ==
    \E t, u \in Tasks :
       /\ pc[t] \in {"get_wait", "ck_wait"}
       /\ pc[u] = "ins_removed"
       /\ op[u].key = op[t].key

\* ---------------------------------------------------------- deadlock
\* task t is suspended at a lock acquisition
Waiting(t) == pc[t] \in WaitPcs
WantsWrite(t) == pc[t] \in {"ins_wait", "gm_wait", "rm_wait", "clr_wait"}

\* the lock task t waits for can be granted now
Grantable(t) == IF WantsWrite(t) THEN CanWrite(op[t].idx) ELSE CanRead(op[t].idx)

\* task u holds shard i through a call in flight or a retained guard
HoldsShared(u, i) == u \in ReadSections(i) \/ Retains(u, i, "r")
HoldsExclusive(u, i) == u \in WriteSections(i) \/ Retains(u, i, "w")

\* the tasks whose hold keeps the waiting task t suspended
Blockers(t) ==
    {u \in Tasks : \/ HoldsExclusive(u, op[t].idx)
                   \/ WantsWrite(t) /\ HoldsShared(u, op[t].idx)}

\* every task of S waits for a lock that only tasks of S can release
DeadlockedSet(S) ==
    /\ S # {}
    /\ \A t \in S : Waiting(t) /\ ~Grantable(t) /\ Blockers(t) \subseteq S

\* C7 as stated: no reachable state has a set of tasks blocked on each other
\* forever, tasks that retain a MapRef or MapRefMut included.
NoDeadlock == \A S \in SUBSET Tasks : ~DeadlockedSet(S)

\* C7 as amended: a suspended call holds no shard lock through the call
\* itself (clear has released shard i when it waits for shard i + 1), the
\* lock it waits for is held by a call inside its critical section or by a
\* retained guard, and every set of tasks blocked on each other contains a
\* task that waits while retaining a MapRef or MapRefMut.
NoDeadlockAmongCalls ==
    /\ \A t \in Tasks : (Waiting(t) /\ ~Grantable(t)) => Blockers(t) # {}
    /\ \A S \in SUBSET Tasks :
          DeadlockedSet(S) => \E t \in S : guards[t] # <<>>

\* a call waits for a shard that another call, inside its critical section,
\* holds
BlockedByRunningCall ==
    \E t, u \in Tasks :
       /\ Waiting(t) /\ ~Grantable(t)
       /\ u \in Blockers(t)
       /\ u \in WriteSections(op[t].idx)
       /\ guards[t] = <<>> /\ guards[u] = <<>>

\* ------------------------------------------------ shard independence
\* hash & (shardCount - 1) for a power of two: the shard the key belongs to
RouteOf(k) == Hash(k) % nshards

\* C8: a call on a key of shard A is never kept waiting by a lock held on
\* another shard B: whenever the lock of A itself can be granted, the
\* acquisition of the waiting call is enabled, whatever the other shards'
\* locks are.
ShardIndependence ==
    \A t \in Tasks :
       LET a == RouteOf(op[t].key)
       IN /\ pc[t] = "ins_wait" => (CanWrite(a) => ENABLED InsertLock(t))
          /\ pc[t] = "gm_wait" => (CanWrite(a) => ENABLED GetMutLock(t))
          /\ pc[t] = "rm_wait" => (CanWrite(a) => ENABLED RemoveLock(t))
          /\ pc[t] = "get_wait" => (CanRead(a) => ENABLED GetLock(t))
          /\ pc[t] = "ck_wait" => (CanRead(a) => ENABLED ContainsLock(t))

\* an insert on shard A has run up to its return while another task retains
\* a MapRefMut, hence the exclusive lock, on shard B
InsertBesideHeldShard ==
    \E t, u \in Tasks : \E b \in Shards :
       /\ pc[t] = "ins_exit"
       /\ RouteOf(op[t].key) # b
       /\ op[t].idx # b
       /\ Retains(u, b, "w")
       /\ lock[b].writer

\* C9: a shard lock is held exactly by the calls inside their critical
\* section and by the MapRef / MapRefMut values alive: a get or get_mut
\* that found nothing, and insert, contains_key, remove and clear once they
\* returned, hold nothing.
GuardScoping ==
    /\ \A i \in Shards :
          /\ lock[i].readers = SharedHolders(i)
          /\ lock[i].writer = (ExclusiveHolders(i) = 1)
    /\ \A t \in Tasks : \A j \in 1..Len(guards[t]) :
          /\ guards[t][j].idx \in Shards
          /\ Found(guards[t][j].idx, guards[t][j].key)

\* an idle task retains a MapRef and its shard's shared lock is still held
GuardRetained ==
    \E t \in Tasks :
       /\ pc[t] = "idle"
       /\ Len(guards[t]) = 1
       /\ guards[t][1].mode = "r"
       /\ lock[guards[t][1].idx].readers = 1

\* ------------------------------------------------------ constructors
\* the smallest power of two >= n
SmallestPow2Geq(n) ==
    CHOOSE p \in {Pow2(e) : e \in 0..BitLen(n)} :
       /\ p >= n
       /\ \A q \in {Pow2(e) : e \in 0..BitLen(n)} : q >= n => p <= q

\* C10: every constructor that accepts a shard count returns, for every
\* requested count, a map with the smallest power of two >= the count as
\* its number of shards, with no observable error.
CtorTotal ==
    status # "new" =>
       /\ status = "live"
       /\ nshards = SmallestPow2Geq(args.shards)

\* ------------------------------------------------- absent keys (C11)
\* One task (Driver) makes up to two calls on its key k, each of them any
\* of remove, get, get_mut, contains_key or the drop of the guard it got,
\* and keeps what each call returned, while the other tasks insert, remove,
\* look up and clear every key, k included.
\*   script.step 11, 12: the calls; 13: done
AbsStep ==
    /\ script.step \in 11..12
    /\ \/ RemoveCall(Driver, script.k)
       \/ GetCall(Driver, script.k)
       \/ GetMutCall(Driver, script.k)
       \/ ContainsCall(Driver, script.k)
       \/ DropGuard(Driver, 1)

InitAbs ==
    /\ \E n \in 1..MaxShards :
          /\ status = "live"
          /\ args = [ctor |-> "with_shards", shards |-> n, cap |-> 0]
          /\ nshards = with_shards_and_hasher(n)
          /\ capacity = ShardNewCapacity
          /\ table = FreshTable(with_shards_and_hasher(n))
          /\ lock = FreshLock(with_shards_and_hasher(n))
    /\ length = 0
    /\ IdleTasks
    /\ script \in [step : {11}, k : Keys, v : {None}]
    /\ seen = NoRet

NextAbs ==
    \/ AbsStep
    \/ \E t \in Tasks \ {Driver} : KeyCalls(t, Keys)
    \/ \E t \in Tasks \ {Driver} : ClearCall(t)
    \/ \E t \in Tasks : KeySteps(t)
    \/ \E t \in Tasks : ClearSteps(t)
    \/ \E t \in Tasks : Cancel(t)

SpecAbs == InitAbs /\ [][NextAbs]_vars

\* task t leaves the state pc[t] = at in this step
Leaves(t, at) == pc[t] = at /\ pc'[t] # at

\* the doc-example task is returned res by the call it is in
Returned(t, res) ==
    t = Driver => seen' = [name |-> op[t].name, key |-> op[t].key, res |-> res]

\* what remove, get, get_mut and contains_key do on a key that has no entry,
\* and what remove does to the counter
AbsenceContract ==
    \A t \in Tasks :
       LET k == op[t].key
       IN /\ (k \notin LiveKeys /\ \E at \in {"rm_locked", "get_locked", "gm_locked",
                                              "ck_locked"} : Leaves(t, at))
                => /\ pc'[t] = "idle"
                   /\ Returned(t, None)
                   /\ table' = table
                   /\ length' = length
                   /\ guards' = guards
          /\ (k \in LiveKeys /\ Leaves(t, "rm_locked"))
                => /\ pc'[t] = "rm_count"
                   /\ op'[t].old # None
                   /\ k \notin LiveKeys'
                   /\ length' = length
          /\ Leaves(t, "rm_count")
                => /\ pc'[t] = "rm_exit"
                   /\ op[t].old # None
                   /\ length' = length - 1
                   /\ table' = table
          /\ Leaves(t, "rm_exit")
                => /\ pc'[t] = "idle"
                   /\ Returned(t, op[t].old)
                   /\ length' = length
                   /\ table' = table
          /\ Leaves(t, "rm_wait") => (length' = length /\ table' = table)

\* C11: remove, get, get_mut and contains_key on a key with no entry return
\* None / false and change neither a shard's contents nor the counter;
\* remove subtracts exactly 1 from the counter when it removed an entry and
\* leaves the counter alone when it did not.
AbsenceIsNoError == [][AbsenceContract]_vars

\* a remove of the absent key k returned None to its caller while the map
\* holds another key
RemovedNothing ==
    /\ script.step \in 12..13
    /\ seen = [name |-> "remove", key |-> script.k, res |-> None]
    /\ script.k \notin LiveKeys
    /\ LiveKeys # {}
    /\ length = Cardinality(LiveKeys)

\* -------------------------------------------------------- clear (C12)
\* no shard holds an entry
MapEmpty == \A i \in Shards : table[i] = EmptyBag

\* what a clear() of task t does: when it ran with no other call in flight
\* it returns with every shard empty, and on a map that holds no entry none
\* of its steps changes a table or the counter
ClearContract ==
    \A t \in Tasks :
       /\ (Leaves(t, "clr_locked") /\ pc'[t] = "idle" /\ op[t].solo)
             => (MapEmpty' /\ LiveKeys' = {})
       /\ (MapEmpty /\ (Leaves(t, "clr_wait") \/ Leaves(t, "clr_locked")))
             => (table' = table /\ length' = length)

\* C12: when a clear() that ran with no other call in flight returns, no
\* key has an entry in any shard (get yields None, contains_key false); a
\* clear() on a map without entries changes nothing.
ClearEmptiesMap == [][ClearContract]_vars

\* a clear() that runs alone on a two-shard map with a key in each shard has
\* emptied the first shard and holds the lock of the last one
SoloClearAtLastShard ==
    \E t \in Tasks :
       /\ pc[t] = "clr_locked"
       /\ op[t].solo
       /\ nshards = 2
       /\ op[t].idx = 1
       /\ length = 2
       /\ table[0] = EmptyBag
       /\ table[1] # EmptyBag

\* ----------------------------------------------------- capacity (C13)
\* C13: for every requested capacity cap and shard count s >= 1,
\* with_shards_and_capacity_and_hasher(s, cap, h) creates every shard with a
\* capacity of at least cap / s rounded up to a power of two, so that the
\* shards together have room for at least cap entries.
CapacityHonoured ==
    (status = "live" /\ args.ctor = "with_shards_and_capacity" /\ args.shards >= 1)
       => /\ capacity >= SmallestPow2Geq(args.cap \div args.shards)
          /\ nshards * capacity >= args.cap

\* ------------------------------------------------------ routing (C14)
\* the keys routed, and a call of the private fn shard(&key) by task t:
\* the index it computes is kept in the task's locals
RouteKeys == 0..MaxRouteKey

Route(t, k) ==
    /\ status = "live"
    /\ op' = [op EXCEPT ![t] = Call("shard", k, None, shard(k), FALSE)]
    /\ UNCHANGED <<ctorVars, mapVars, pc, guards, clears, script, seen>>

\* a map built by ShardMap::with_shards(n) for every n up to MaxRouteShards
InitRoute ==
    /\ \E n \in 0..MaxRouteShards :
          /\ status = "live"
          /\ args = [ctor |-> "with_shards", shards |-> n, cap |-> 0]
          /\ nshards = with_shards_and_hasher(n)
          /\ capacity = ShardNewCapacity
          /\ table = FreshTable(with_shards_and_hasher(n))
          /\ lock = FreshLock(with_shards_and_hasher(n))
    /\ length = 0
    /\ IdleTasks
    /\ script = NoScript
    /\ seen = NoRet

NextRoute == \E k \in RouteKeys : Route(Driver, k)

\* shard() applied by one task to every key on maps of every size
SpecRoute == InitRoute /\ [][NextRoute]_vars

\* the index shard() computed last for task t is hash & (n - 1), which is
\* hash % n, and indexes an existing shard
RoutedRight ==
    \A t \in Tasks :
       op[t].name = "shard" =>
          /\ op[t].idx = BitAnd(Hash(op[t].key), nshards - 1)
          /\ op[t].idx = Hash(op[t].key) % nshards
          /\ op[t].idx \in 0..(nshards - 1)

\* two calls of shard() for the same key compute the same index
RoutedAlike ==
    \A t, u \in Tasks :
       (op'[t].name = "shard" /\ op[u].name = "shard" /\ op'[t].key = op[u].key)
          => op'[t].idx = op[u].idx

\* C14: for every hash and every power-of-two shard count n, n = 1
\* included, the index shard() computes from the leading-zero count equals
\* hash & (n - 1), lies in 0..n-1, and is the same on every call for the
\* same key.
RoutingMask == [](RoutedRight) /\ [][RoutedAlike]_vars

\* a key whose hash exceeds the shard count was routed to a shard other than
\* the first on a map of more than two shards
RoutedByLowBits ==
    \E t \in Tasks :
       /\ op[t].name = "shard"
       /\ nshards > 2
       /\ Hash(op[t].key) >= nshards
       /\ op[t].idx > 1

\* ------------------------------------------------- one shard per key (C15)
\* the shards that hold an entry for key k
ShardsOf(k) == {i \in Shards : Found(i, k)}

\* C15: in every reachable state every entry stored in shard i has a key
\* that is routed to i, and no key has entries in two different shards,
\* whatever inserts, removes and clears ran before.
OneShardPerKey ==
    /\ \A i \in Shards : \A e \in BagToSet(table[i]) :
          /\ shard(e[1]) = i
          /\ RouteOf(e[1]) = i
    /\ \A k \in Keys : Cardinality(ShardsOf(k)) <= 1

\* after a clear() both shards of a two-shard map hold an entry again
BothShardsRefilled ==
    /\ nshards = 2
    /\ clears = 1
    /\ \A t \in Tasks : op[t].name # "clear"
    /\ \A i \in Shards : table[i] # EmptyBag

\* ------------------------------------------- counter update order (C16)
\* task t has mutated its shard's table and not yet updated the counter
CountPending(t) == pc[t] \in {"ins_count", "rm_count"}

\* while a counter update is pending the table mutation is done, the task
\* still holds its shard's exclusive lock, and nobody else is inside that
\* shard or retains a guard on it
CountUnderLock ==
    \A t \in Tasks :
       CountPending(t) =>
          LET i == op[t].idx
          IN /\ lock[i].writer /\ lock[i].readers = 0
             /\ WriteSections(i) = {t}
             /\ ReadSections(i) = {}
             /\ GuardsOn(i, "r") = {} /\ GuardsOn(i, "w") = {}
             /\ pc[t] = "ins_count" => Lookup(i, op[t].key) = op[t].val
             /\ pc[t] = "rm_count" => ~Found(i, op[t].key)

\* no step changes the shard's table while the update is pending; the
\* update itself moves the counter by one and keeps the lock, which is
\* released by the step after it
CountThenUnlock ==
    \A t \in Tasks :
       LET i == op[t].idx
       IN /\ CountPending(t) => table'[i] = table[i]
          /\ Leaves(t, "ins_count")
                => (length' = length + 1 /\ pc'[t] = "ins_exit" /\ lock'[i].writer)
          /\ Leaves(t, "rm_count")
                => (length' = length - 1 /\ pc'[t] = "rm_exit" /\ lock'[i].writer)
          /\ (lock[i].writer /\ ~lock'[i].writer /\ t \in WriteSections(i))
                => ~CountPending(t)

\* C16: in insert of a new key and in remove of a key found, the counter is
\* updated after the table mutation and before the shard's exclusive lock
\* is released: no other operation on that shard observes or changes the
\* table between the mutation and the counter update.
CountInsideCriticalSection == [](CountUnderLock) /\ [][CountThenUnlock]_vars

\* a remove has taken its entry out and not yet updated the counter while
\* another task waits for the same shard
CountPendingWhileOtherWaits ==
    \E t, u \in Tasks :
       /\ pc[t] = "rm_count"
       /\ Waiting(u)
       /\ op[u].idx = op[t].idx
       /\ op[u].key = op[t].key

\* ------------------------------------------- one lock per call (C17)
\* the number of shared and exclusive holds the shard locks record
HeldShared ==
    Cardinality({x \in Shards \X (1..(NumTasks * (MaxGuards + 1))) :
                    x[2] <= lock[x[1]].readers})
HeldExclusive == Cardinality({i \in Shards : lock[i].writer})

\* the calls that stand inside a critical section, and the guards retained
CallsInside == Cardinality({t \in Tasks : pc[t] \in ReadPcs \cup WritePcs})
GuardsAlive ==
    Cardinality({g \in Tasks \X (1..MaxGuards) : g[2] <= Len(guards[g[1]])})

\* every call in flight accounts for at most one held shard lock: the locks
\* held are those of the calls inside a critical section, one each, and of
\* the guards retained; a call that waits, clear between two shards
\* included, holds none
OneLockPerCall ==
    /\ HeldShared + HeldExclusive = CallsInside + GuardsAlive
    /\ \A t \in Tasks :
          (pc[t] \in {"clr_wait", "clr_locked"} /\ GuardsAlive = 0
              /\ \A u \in Tasks \ {t} : pc[u] \notin ReadPcs \cup WritePcs)
             => \A i \in Shards :
                   /\ lock[i].readers = 0
                   /\ lock[i].writer = (pc[t] = "clr_locked" /\ i = op[t].idx)

\* clear starts at the first shard, releases the lock of shard i in the step
\* that clears it, then waits for shard i + 1, and returns after the last
ClearInOrder ==
    \A t \in Tasks :
       /\ (pc[t] = "idle" /\ pc'[t] = "clr_wait") => op'[t].idx = 0
       /\ Leaves(t, "clr_wait")
             => (pc'[t] = "idle"
                   \/ (pc'[t] = "clr_locked" /\ op'[t].idx = op[t].idx
                          /\ lock'[op[t].idx].writer))
       /\ Leaves(t, "clr_locked")
             => /\ ~lock'[op[t].idx].writer
                /\ IF op[t].idx + 1 < nshards
                   THEN pc'[t] = "clr_wait" /\ op'[t].idx = op[t].idx + 1
                   ELSE pc'[t] = "idle"

\* C17: clear() visits the shards in order and holds at most one shard's
\* exclusive lock at any instant, releasing shard i before it waits for
\* shard i + 1; every other operation holds at most one shard lock.
ClearOneShardAtATime == [](OneLockPerCall) /\ [][ClearInOrder]_vars

\* a clear() has released the first shard and waits for the second, which
\* another task's guard keeps locked, while the first shard is free
ClearWaitsHoldingNothing ==
    \E t \in Tasks :
       /\ pc[t] = "clr_wait"
       /\ op[t].idx = 1
       /\ ~CanWrite(1)
       /\ CanWrite(0)
       /\ guards[t] = <<>>

\* ------------------------------------------------- no underflow (C18)
\* the number of entries stored over all shards
TotalEntries ==
    Cardinality({x \in Shards \X (Keys \X Values) : x[2] \in BagToSet(table[x[1]])})

\* the inserts whose increment, and the removes whose decrement, is pending
InsPending == Cardinality({t \in Tasks : pc[t] = "ins_count"})
RmPending == Cardinality({t \in Tasks : pc[t] = "rm_count"})

\* the counter has been incremented for every entry stored and for every
\* entry a pending remove took out, pending inserts excepted
IncrementsCoverEntries ==
    /\ length >= 0
    /\ length + InsPending >= TotalEntries + RmPending

\* every decrement finds the counter at 1 or more
DecrementAboveZero ==
    \A t \in Tasks : Leaves(t, "rm_count") => (length >= 1 /\ length' = length - 1)

\* C18: under every interleaving of insert, remove and clear the decrement
\* of remove comes after the increment of the insert that created the entry
\* removed, so the counter is never decremented at 0 and never wraps.
LengthNeverUnderflows == [](IncrementsCoverEntries) /\ [][DecrementAboveZero]_vars

\* after a clear() a remove is about to decrement the counter while an
\* insert on the other shard has its increment pending
DecrementBesidePendingIncrement ==
    \E t, u \in Tasks :
       /\ clears = 1
       /\ pc[t] = "rm_count"
       /\ pc[u] = "ins_count"
       /\ length >= 1

\* ------------------------------------------- length without clear (C19)
\* no shard's exclusive lock is held
NoWriter == \A i \in Shards : ~lock[i].writer

\* C19: as long as clear() has never been called, whenever no shard's
\* exclusive lock is held the counter equals the number of entries stored
\* over all shards.
LengthMatchesWithoutClear ==
    (status = "live" /\ clears = 0 /\ NoWriter) => length = TotalEntries

\* with no clear() so far the map holds two entries, a MapRef is retained
\* and no exclusive lock is held
TwoEntriesOneReader ==
    /\ clears = 0
    /\ NoWriter
    /\ TotalEntries = 2
    /\ length = 2
    /\ \E i \in Shards : lock[i].readers > 0

\* ------------------------------------------- blocked by own guard (C20)
\* task t retains a MapRef or MapRefMut on the shard its call waits for
WaitsOnOwnGuard(t) ==
    /\ WantsWrite(t)
    /\ Retains(t, op[t].idx, "r") \/ Retains(t, op[t].idx, "w")

\* such a call cannot take the lock, and no call is inside the critical
\* section of a shard on which its own task retains a guard
OwnGuardBlocks ==
    /\ \A t \in Tasks :
          WaitsOnOwnGuard(t) =>
             /\ ~Grantable(t)
             /\ ~ENABLED InsertLock(t)
             /\ ~ENABLED GetMutLock(t)
             /\ ~ENABLED RemoveLock(t)
             /\ ~ENABLED ClearLock(t)
    /\ \A t \in Tasks : \A i \in Shards :
          t \in WriteSections(i) => ~(Retains(t, i, "r") \/ Retains(t, i, "w"))

\* while the guard is retained the call stays where it is, unless its future
\* is dropped, which leaves the map as it is
OwnGuardKeepsWaiting ==
    \A t \in Tasks :
       (WaitsOnOwnGuard(t) /\ guards'[t] = guards[t])
          => \/ pc'[t] = pc[t] /\ op'[t].name = op[t].name /\ op'[t].idx = op[t].idx
             \/ pc'[t] = "idle" /\ mapVars' = mapVars

====
